---- MODULE Spec2Model ----
(***************************************************************************)
(* Priority-driven reminder escalation of the student task manager:        *)
(* the server-side reminder scanner (backend/server.js), the task          *)
(* controller's updateTask / progressReminder handlers, and the client's   *)
(* reminder queue (frontend App.jsx) with the ringtone hook                *)
(* (hooks/useRingtone.js) and the task service (services/taskService.js).  *)
(* Time is counted in minutes.                                             *)
(***************************************************************************)
EXTENDS Integers, Sequences, FiniteSets, Bags, TLC

\* ----------------------------------------------------------------- bounds
\* the clock stops advancing at MaxNow
MaxNow == 300
\* number of direct API calls (progress / update) of one run
MaxOps == 2
\* number of clicks on the STOP and snooze buttons of one client session
MaxClicks == 2
\* number of snoozes a task with a long history has behind it
EarlierSnoozes == 19

\* ------------------------------------------------------ program constants
\* task.reminderAt = null
Null == 0
\* MAX_RING_HISTORY
MAX_RING_HISTORY == 20
\* progressReminder: next reminder in +1 hour (60 * 60 * 1000 ms)
ReminderInterval == 60
\* quietHoursWindow = { startHour: 0, endHour: 5 }
QuietStartHour == 0
QuietEndHour == 5

Priorities == {"low", "medium", "high"}
\* the task ids there are; DOMAIN tasks are the ones stored
Tasks == {"t1", "t2"}
\* an id that is not an ObjectId (24 hex digits), as a request may carry
MalformedIds == {"x"}
\* the ids a request may name
Ids == Tasks \cup MalformedIds
\* the instant the clock is started at: 04:00, within the quiet hours
StartTimes == {240}
\* the clock advances in steps of these many minutes
TimeSteps == {60}
\* the snooze buttons of ReminderPopup: 10 min, 30 min, 1 hour
SnoozeButtons == {10, 30, 60}

VARIABLES
  now,          \* the wall clock, minutes
  tasks,        \* the Task collection: task id -> document
  scanList,     \* the scanner's tasksToRemind still to process in this tick
  overlapList,  \* the same of a tick that began while the one before was still running
  ops,          \* direct API calls, or clicks in the client, made so far
  request,      \* the last direct API call: which call, the id and the body sent
  response,     \* status and message of the response to the last direct API call
  emailed,      \* per task: email attempts for the current reminderAt
  mailLog,      \* per task: what the scanner logged of its last email attempt
  cycle,        \* per task: what happened in the current reminder cycle
  \* the client session (App.jsx)
  uiTasks,             \* the `tasks` state: what fetchTasks last returned
  mounted,             \* the React tree is mounted; an error thrown while rendering unmounts it
  isAuthenticated,     \* a user is logged in: the token is stored and the task view is rendered
  processedRemindersRef,  \* the reminder keys <<id, reminderAt>> already queued
  reminderQueue,       \* fired reminders waiting to be shown
  activeReminderTask,  \* the reminder being shown, or NoTask
  showReminderPopup,
  currentAudioRef,     \* the audio of a dated sub-reminder is playing
  reminderTriggeredRef,   \* the trigger keys <<id, index, count>> already notified
  checkClosure,        \* what the checkReminders closure of the last render sees
  \* the ringtone hook (useRingtone.js) and its browser environment
  ring,                \* isPlaying, currentTask, onEndRef
  startTimers,         \* pending 100 ms timers of scheduleRingtones, oldest first
  audios,              \* the Audio elements that still have an event to come
  \* the network
  net,                 \* requests on their way to the server, oldest first
  sent                 \* per task: progress requests sent since its activation

serverVars == <<now, tasks, scanList, overlapList, emailed, mailLog>>
queueVars  == <<processedRemindersRef, reminderQueue, activeReminderTask, showReminderPopup>>
legacyVars == <<currentAudioRef, reminderTriggeredRef, checkClosure>>
ringVars   == <<ring, startTimers, audios>>
clientVars == <<uiTasks, mounted, isAuthenticated, queueVars, legacyVars, ringVars, net, sent>>
vars == <<serverVars, ops, request, response, cycle, clientVars>>

\* --------------------------------------------------------------- the Task
\* the Task schema: a new document with its defaults
NewTask(p, reminders) ==
  [ priority      |-> p,
    title         |-> "a",
    completed     |-> FALSE,
    reminders     |-> reminders,  \* triggeredCount of each dated sub-reminder
    reminderAt    |-> Null,
    notified      |-> FALSE,
    uiPending     |-> FALSE,
    reminderCount |-> 0,
    lastRingAt    |-> Null,
    ringHistory   |-> <<>> ]

\* const maxRemindersMap = { low: 1, medium: 2, high: 3 }
maxRemindersMap(p) ==
  CASE p = "low" -> 1 [] p = "medium" -> 2 [] p = "high" -> 3

\* a map that reschedules every priority one day later
priorityRescheduleMapDaily(p) == 1440

\* const priorityRescheduleMap = { low: 30, medium: 1440, high: 10080 }
priorityRescheduleMap(p) ==
  CASE p = "low" -> 30 [] p = "medium" -> 1440 [] p = "high" -> 10080

\* array.slice(-n): the last n elements
SliceLast(s, n) ==
  IF Len(s) <= n THEN s ELSE SubSeq(s, Len(s) - n + 1, Len(s))

\* a push that evicts the newest entries instead of the oldest
pushRingHistoryKeepingOldest(hist, entry) ==
  LET pushed == Append(hist, entry)
  IN  IF Len(pushed) > MAX_RING_HISTORY
        THEN SubSeq(pushed, 1, MAX_RING_HISTORY)
        ELSE pushed

\* pushRingHistory(task, entry)
pushRingHistory(hist, entry) ==
  LET pushed == Append(hist, entry)
  IN  IF Len(pushed) > MAX_RING_HISTORY
        THEN SliceLast(pushed, MAX_RING_HISTORY)
        ELSE pushed

\* ---------------------------------------------- POST /:id/reminder-progress
\* The request body {stopped, snoozeMinutes}.  snoozeMinutes is what JSON can
\* carry there: absent, a number, or a string.
Absent == [kind |-> "absent", n |-> 0]
Num(n) == [kind |-> "num", n |-> n]
Str(n) == [kind |-> "str", n |-> n]
\* the JSON number 1e999, which JSON.parse reads as Infinity
Inf == [kind |-> "inf", n |-> 0]
SnoozeValues ==
  {Absent, Num(0), Num(-10), Str(10), Inf} \cup {Num(n) : n \in SnoozeButtons}

\* the truthiness of a value: undefined, 0 and "" are falsy
Truthy(v) ==
  CASE v.kind = "absent" -> FALSE
    [] v.kind = "num"    -> v.n # 0
    [] v.kind = "str"    -> TRUE
    [] v.kind = "inf"    -> TRUE

\* Number.isFinite(v): false for whatever is not a number, and for Infinity
NumberIsFinite(v) == v.kind = "num"

\* v > 0, which converts a string to a number; undefined > 0 is false
GreaterThanZero(v) ==
  CASE v.kind = "absent" -> FALSE
    [] v.kind = "num"    -> v.n > 0
    [] v.kind = "str"    -> v.n > 0
    [] v.kind = "inf"    -> TRUE

\* the snooze condition without its Number.isFinite test
IsSnoozeCoercing(v) == Truthy(v) /\ GreaterThanZero(v)

\* snoozeMinutes && Number.isFinite(snoozeMinutes) && snoozeMinutes > 0
IsSnooze(v) == Truthy(v) /\ NumberIsFinite(v) /\ GreaterThanZero(v)

\* the note `Snoozed ${snoozeMinutes}m`
SnoozeNote(n) == "Snoozed " \o ToString(n) \o "m"

\* a snooze that also counts as an escalation step
snoozeTaskCounting(task, minutes, at) ==
  [task EXCEPT
     !.reminderCount = task.reminderCount + 1,
     !.reminderAt  = at + minutes,
     !.uiPending   = FALSE,
     !.notified    = FALSE,
     !.lastRingAt  = at,
     !.ringHistory = pushRingHistory(@,
        [at |-> at, action |-> "snoozed", note |-> SnoozeNote(minutes)])]

\* a snooze that starts the escalation count again
snoozeTaskResettingCount(task, minutes, at) ==
  [task EXCEPT
     !.reminderCount = 0,
     !.reminderAt  = at + minutes,
     !.uiPending   = FALSE,
     !.notified    = FALSE,
     !.lastRingAt  = at,
     !.ringHistory = pushRingHistory(@,
        [at |-> at, action |-> "snoozed", note |-> SnoozeNote(minutes)])]

\* the snooze path of progressReminder
snoozeTask(task, minutes, at) ==
  [task EXCEPT
     !.reminderAt  = at + minutes,
     !.uiPending   = FALSE,
     !.notified    = FALSE,
     !.lastRingAt  = at,
     !.ringHistory = pushRingHistory(@,
        [at |-> at, action |-> "snoozed", note |-> SnoozeNote(minutes)])]

\* a reschedule that leaves the fired flags as they are
rescheduleTaskKeepingFlags(task, stopped, at) ==
  [task EXCEPT
     !.reminderCount = task.reminderCount + 1,
     !.reminderAt    = at + ReminderInterval,
     !.lastRingAt    = at,
     !.ringHistory   = pushRingHistory(@,
        [at |-> at, action |-> IF stopped THEN "stopped" ELSE "auto",
         note |-> "Reminder progressed"])]

\* progressReminder when newCount < maxReminders: the next reminder in +1 hour
rescheduleTask(task, stopped, at) ==
  [task EXCEPT
     !.reminderCount = task.reminderCount + 1,
     !.reminderAt    = at + ReminderInterval,
     !.uiPending     = FALSE,
     !.notified      = FALSE,
     !.lastRingAt    = at,
     !.ringHistory   = pushRingHistory(@,
        [at |-> at, action |-> IF stopped THEN "stopped" ELSE "auto",
         note |-> "Reminder progressed"])]

\* an exhaustion that also drops the dated sub-reminders
exhaustTaskDroppingReminders(task, stopped, at) ==
  [task EXCEPT
     !.reminderCount = 0,
     !.reminderAt    = Null,
     !.reminders     = <<>>,
     !.uiPending     = FALSE,
     !.notified      = FALSE,
     !.lastRingAt    = at,
     !.ringHistory   = pushRingHistory(@,
        [at |-> at, action |-> IF stopped THEN "stopped" ELSE "auto",
         note |-> "Max reminders reached"])]

\* progressReminder when the maximum is reached: the reminder is removed
exhaustTask(task, stopped, at) ==
  [task EXCEPT
     !.reminderCount = 0,
     !.reminderAt    = Null,
     !.uiPending     = FALSE,
     !.notified      = FALSE,
     !.lastRingAt    = at,
     !.ringHistory   = pushRingHistory(@,
        [at |-> at, action |-> IF stopped THEN "stopped" ELSE "auto",
         note |-> "Max reminders reached"])]

\* progressReminder without its check of task.completed
progressReminderOfCompleted(task, stopped, snoozeMinutes, at) ==
  IF IsSnooze(snoozeMinutes) THEN snoozeTask(task, snoozeMinutes.n, at)
  ELSE IF task.reminderCount + 1 < maxRemindersMap(task.priority)
    THEN rescheduleTask(task, stopped, at)
    ELSE exhaustTask(task, stopped, at)

\* progressReminder, after the task was found: the document it saves
progressReminder(task, stopped, snoozeMinutes, at) ==
  IF task.completed THEN task
  ELSE IF IsSnooze(snoozeMinutes) THEN snoozeTask(task, snoozeMinutes.n, at)
  ELSE
    LET maxReminders == maxRemindersMap(task.priority)
        newCount     == task.reminderCount + 1
    IN  IF newCount < maxReminders
          THEN rescheduleTask(task, stopped, at)
          ELSE exhaustTask(task, stopped, at)

\* the response of progressReminder, after the task was found
progressReminderResponse(task, stopped, snoozeMinutes) ==
  IF task.completed THEN [status |-> 200, message |-> "Task already completed"]
  ELSE IF IsSnooze(snoozeMinutes)
    THEN [status |-> 200,
          message |-> "Reminder snoozed for " \o ToString(snoozeMinutes.n) \o " minutes"]
  ELSE IF task.reminderCount + 1 < maxRemindersMap(task.priority)
    THEN [status |-> 200, message |-> "Reminder progressed and rescheduled +1 hour"]
    ELSE [status |-> 200,
          message |-> "All reminders completed - reminder removed from task"]

\* ------------------------------------------------ the responses of the API
\* no call was made yet
NoRequest == [call |-> "none", id |-> "none", body |-> <<>>]
NoResponse == [status |-> 0, message |-> "none"]

\* if (!task) return res.status(404).json({ message: 'Task not found' })
NotFound == [status |-> 404, message |-> "Task not found"]

\* --------------------------------------------- PUT /:id/reminder-triggered
\* const maxRings = { low: 1, medium: 2, high: 3 }[task.priority]
maxRings(p) ==
  CASE p = "low" -> 1 [] p = "medium" -> 2 [] p = "high" -> 3

\* an updateReminderTriggered that takes the nearest sub-reminder for an index
\* outside the list
updateReminderTriggeredNearest(task, i) ==
  IF Len(task.reminders) = 0 THEN task
  ELSE LET j == IF i < 1 THEN 1 ELSE IF i > Len(task.reminders) THEN Len(task.reminders) ELSE i
       IN  IF task.reminders[j] < maxRings(task.priority)
             THEN [task EXCEPT !.reminders[j] = @ + 1]
             ELSE task

\* updateReminderTriggered, after the task was found; i counts from 1
updateReminderTriggered(task, i) ==
  IF Len(task.reminders) = 0 THEN task
  ELSE IF i < 1 \/ i > Len(task.reminders) THEN task
  ELSE IF task.reminders[i] < maxRings(task.priority)
    THEN [task EXCEPT !.reminders[i] = @ + 1]
    ELSE task

\* the response of updateReminderTriggered, after the task was found; a
\* reminderIndex that is not there reads reminders[undefined] and throws
updateReminderTriggeredResponse(task, reminderIndex) ==
  IF Len(task.reminders) = 0
    THEN [status |-> 400, message |-> "Task has no reminders"]
  ELSE IF reminderIndex.kind = "num"
          /\ (reminderIndex.n < 0 \/ reminderIndex.n >= Len(task.reminders))
    THEN [status |-> 400, message |-> "Invalid reminder index"]
  ELSE IF reminderIndex.kind # "num"
    THEN [status |-> 500, message |-> "Failed to update reminder triggered count"]
    ELSE [status |-> 200, message |-> "none"]

\* ------------------------------------------------------------ PUT /:id
\* The request body: `has` names the fields that are present; a field that
\* is absent is undefined in the handler and is left out of the update.
Has(body, f) == f \in body.has

\* updateTask, after the task was found: the document after findByIdAndUpdate
updateTask(task, body) ==
  LET completed    == Has(body, "completed") /\ body.completed
      processedReminders ==
        IF Has(body, "reminders")
          THEN [i \in DOMAIN body.reminders |->
                  IF completed THEN 0 ELSE body.reminders[i]]
          ELSE <<>>
      priorityLevel == IF Has(body, "priority") THEN body.priority ELSE task.priority
      reschedule    == completed /\ task.reminderAt # Null /\ ~task.completed
      newReminderAt ==
        IF reschedule THEN task.reminderAt + priorityRescheduleMap(priorityLevel)
        ELSE IF Has(body, "reminderAt") THEN body.reminderAt
        ELSE task.reminderAt
  IN  [task EXCEPT
         !.title      = IF Has(body, "title") THEN body.title ELSE @,
         !.priority   = IF Has(body, "priority") THEN body.priority ELSE @,
         !.completed  = IF Has(body, "completed") THEN body.completed ELSE @,
         !.reminders  = processedReminders,
         !.reminderAt = newReminderAt,
         !.notified   = FALSE]

\* ------------------------------------------------------------ bookkeeping
\* What the claims count per task; no handler reads it.
\* emailed[t]: sendReminderEmail attempts made for the current value of
\* tasks[t].reminderAt
EmailedAfter(n, old, new) ==
  IF new.reminderAt # old.reminderAt THEN 0 ELSE n

\* cycle[t], kept by the client-and-server specification:
\*   fires   scanner fires since the cycle began
\*   steps   progress/snooze transitions applied since the last scanner fire
\*   snoozed the user pressed a snooze button during the cycle
\*   closed  <<n>> once a cycle without snooze reached Idle after n fires
NewCycle == [fires |-> 0, steps |-> 0, snoozed |-> FALSE, closed |-> <<>>]

CycleAfterFire(c) ==
  [c EXCEPT !.fires = @ + 1, !.steps = 0]

CycleAfterProgress(c, old, new) ==
  LET exhausted == old.reminderAt # Null /\ new.reminderAt = Null
  IN  IF old.completed THEN c
      ELSE [c EXCEPT
              !.steps   = @ + 1,
              !.fires   = IF exhausted THEN 0 ELSE @,
              !.snoozed = IF exhausted THEN FALSE ELSE @,
              !.closed  = IF exhausted /\ ~c.snoozed THEN <<c.fires>> ELSE @]

\* ---------------------------------------------------------------- server
TaskOrder == <<"t1", "t2">>

\* Task.find({ reminderAt: { $lte: now }, notified: false, completed: false })
IsDue(task, at) ==
  /\ task.reminderAt # Null
  /\ task.reminderAt <= at
  /\ ~task.notified
  /\ ~task.completed

\* Timing: a start timer (100 ms), a play() promise and a request are over
\* within a second; the cron tick (every minute), the polls (every 30 s) and
\* the clock's next step find none of them under way.
Settled ==
  /\ startTimers = <<>>
  /\ net = <<>>
  /\ \A a \in BagToSet(audios) : a.phase \in {"playing", "paused"}

\* the cron tick up to the end of the query: the matched documents, each with
\* the uiPending value it was loaded with
ScanQuery ==
  /\ Settled
  /\ scanList = <<>>
  /\ scanList' =
       LET due == SelectSeq(TaskOrder, LAMBDA t : t \in DOMAIN tasks /\ IsDue(tasks[t], now))
       IN  [i \in DOMAIN due |-> [id |-> due[i], uiPending |-> tasks[due[i]].uiPending]]
  /\ UNCHANGED <<now, tasks, overlapList, emailed, mailLog, ops, request, response, cycle, clientVars>>

\* the document after the loop body's task.save(): save writes the paths the
\* loop changed on the loaded document
scanSave(task, loadedUiPending) ==
  [task EXCEPT !.notified  = TRUE,
               !.uiPending = IF loadedUiPending THEN @ ELSE TRUE]

\* sendReminderEmail: transporter.sendMail resolves, or it throws and the
\* catch turns the error into the result
sendReminderEmail(sendMailResolves) ==
  IF sendMailResolves THEN [success |-> TRUE,  error |-> "none"]
                      ELSE [success |-> FALSE, error |-> "message"]

\* a loop body that lets a failed email end the tick
ScanStepAbortingOnFailure(t) ==
  /\ scanList # <<>>
  /\ t = Head(scanList).id
  /\ \E sendMailResolves \in BOOLEAN :
       LET result == sendReminderEmail(sendMailResolves)
       IN  /\ emailed' = [emailed EXCEPT ![t] = @ + 1]
           /\ mailLog' = [mailLog EXCEPT ![t] =
                            IF result.success THEN "processed" ELSE "failed"]
           /\ IF result.success
                THEN /\ tasks' = [tasks EXCEPT ![t] = scanSave(@, Head(scanList).uiPending)]
                     /\ scanList' = Tail(scanList)
                ELSE /\ tasks' = tasks
                     /\ scanList' = <<>>
  /\ UNCHANGED <<now, overlapList>>

\* one iteration of `for (const task of tasksToRemind)`: the email attempt,
\* then the save, then the log line that tells the result.  The save of a
\* document that was deleted since the query throws, and the catch around
\* the loop ends the tick.
ScanStep(t) ==
  /\ scanList # <<>>
  /\ t = Head(scanList).id
  /\ \E sendMailResolves \in BOOLEAN :
       LET result == sendReminderEmail(sendMailResolves)
       IN  /\ emailed' = [emailed EXCEPT ![t] = @ + 1]
           /\ IF t \in DOMAIN tasks
                THEN /\ tasks' = [tasks EXCEPT ![t] = scanSave(@, Head(scanList).uiPending)]
                     /\ mailLog' = [mailLog EXCEPT ![t] =
                                      IF result.success THEN "processed" ELSE "failed"]
                     /\ scanList' = Tail(scanList)
                ELSE /\ tasks' = tasks
                     /\ mailLog' = [mailLog EXCEPT ![t] = "error"]
                     /\ scanList' = <<>>
  /\ UNCHANGED <<now, overlapList>>

\* a POST /:id/reminder-progress request served
ServeProgress(t, stopped, snoozeMinutes) ==
  /\ tasks' = [tasks EXCEPT ![t] = progressReminder(@, stopped, snoozeMinutes, now)]
  /\ emailed' = [emailed EXCEPT ![t] = EmailedAfter(@, tasks[t], tasks'[t])]
  /\ UNCHANGED <<now, scanList, overlapList, mailLog>>

\* a PUT /:id request served
ServeUpdate(t, body) ==
  /\ tasks' = [tasks EXCEPT ![t] = updateTask(@, body)]
  /\ emailed' = [emailed EXCEPT ![t] = EmailedAfter(@, tasks[t], tasks'[t])]
  /\ UNCHANGED <<now, scanList, overlapList, mailLog>>

\* the body handleToggleComplete sends: the whole task, with completed
ToggleBody(task, completed) ==
  [ has        |-> {"title", "priority", "completed", "reminders", "reminderAt"},
    title      |-> task.title,
    priority   |-> task.priority,
    completed  |-> completed,
    reminders  |-> task.reminders,
    reminderAt |-> task.reminderAt ]

\* the body the edit modal sends: the form's fields, and the dated
\* sub-reminders without their triggeredCount
ModalBody(task, title, priority) ==
  [ has        |-> {"title", "priority", "completed", "reminders"},
    title      |-> title,
    priority   |-> priority,
    completed  |-> task.completed,
    reminders  |-> [i \in DOMAIN task.reminders |-> 0],
    reminderAt |-> Null ]

\* a body that only sets the reminder time
ScheduleBody(at) ==
  [ has        |-> {"reminderAt"},
    title      |-> "a",
    priority   |-> "medium",
    completed  |-> FALSE,
    reminders  |-> <<>>,
    reminderAt |-> at ]

\* the bodies an API client sends to complete a task: completed alone, or
\* with a priority
CompleteBodies ==
  {[ScheduleBody(Null) EXCEPT !.has = {"completed"}, !.completed = TRUE]}
    \cup {[ScheduleBody(Null) EXCEPT !.has = {"completed", "priority"},
                                     !.completed = TRUE, !.priority = p] :
            p \in Priorities}

UpdateBodies(task) ==
  {ToggleBody(task, c) : c \in BOOLEAN}
    \cup {ModalBody(task, "b", p) : p \in Priorities}
    \cup {ScheduleBody(now + 10)}
    \cup CompleteBodies

\* ---------------------------------------------- the server and its API
ScanProcess ==
  /\ \E t \in Tasks : ScanStep(t)
  /\ UNCHANGED <<ops, request, response, cycle, clientVars>>

\* Task.findOne({ _id, user }) returned no task. For a well-formed id that
\* does not exist, or is another user's, it resolves to null and the handler
\* answers 404. For an id that is not an ObjectId it rejects with a CastError
\* (error.kind 'ObjectId'), and the catch block of the handler answers
findOneFails(t, onCastError) ==
  /\ response' = IF t \in MalformedIds THEN onCastError ELSE NotFound
  /\ UNCHANGED serverVars

\* an API client calls reminder-progress with this body
ApiProgressOf(t, stopped, snoozeMinutes) ==
  /\ ops < MaxOps
  /\ ops' = ops + 1
  /\ request' = [call |-> "reminder-progress", id |-> t,
                 body |-> [stopped |-> stopped, snoozeMinutes |-> snoozeMinutes]]
  /\ IF t \in DOMAIN tasks
       THEN /\ ServeProgress(t, stopped, snoozeMinutes)
            /\ response' = progressReminderResponse(tasks[t], stopped, snoozeMinutes)
       ELSE findOneFails(t, [status |-> 400, message |-> "Failed to progress reminder"])
  /\ UNCHANGED <<cycle, clientVars>>

\* (for an id that is not found one body stands for all: none is read)
ApiProgress ==
  \/ \E t \in DOMAIN tasks, stopped \in BOOLEAN, snoozeMinutes \in SnoozeValues :
       ApiProgressOf(t, stopped, snoozeMinutes)
  \/ \E t \in Ids \ DOMAIN tasks : ApiProgressOf(t, FALSE, Absent)

\* an API client updates a task with this body
ApiUpdateOf(t, body) ==
  /\ ops < MaxOps
  /\ ops' = ops + 1
  /\ request' = [call |-> "update", id |-> t, body |-> body]
  /\ IF t \in DOMAIN tasks
       THEN /\ ServeUpdate(t, body)
            /\ response' = [status |-> 200, message |-> "Task updated successfully"]
       ELSE findOneFails(t, NotFound)
  /\ UNCHANGED <<cycle, clientVars>>

ApiUpdate ==
  \/ \E t \in DOMAIN tasks : \E body \in UpdateBodies(tasks[t]) : ApiUpdateOf(t, body)
  \/ \E t \in Ids \ DOMAIN tasks : ApiUpdateOf(t, ScheduleBody(now + 10))

\* the reminderIndex of a reminder-triggered body: absent, or a number
ReminderIndexes == {Absent, Num(-1), Num(0), Num(1)}

\* an API client calls reminder-triggered with this reminderIndex
ApiTriggeredOf(t, reminderIndex) ==
  /\ ops < MaxOps
  /\ ops' = ops + 1
  /\ request' = [call |-> "reminder-triggered", id |-> t,
                 body |-> [reminderIndex |-> reminderIndex]]
  /\ IF t \in DOMAIN tasks
       THEN /\ tasks' = [tasks EXCEPT ![t] =
                           IF reminderIndex.kind = "num"
                             THEN updateReminderTriggered(@, reminderIndex.n + 1)
                             ELSE @]
            /\ response' = updateReminderTriggeredResponse(tasks[t], reminderIndex)
            /\ UNCHANGED <<now, scanList, overlapList, emailed, mailLog>>
       ELSE findOneFails(t, [status |-> 500,
                                 message |-> "Failed to update reminder triggered count"])
  /\ UNCHANGED <<cycle, clientVars>>

ApiTriggered ==
  \/ \E t \in DOMAIN tasks, reminderIndex \in ReminderIndexes :
       ApiTriggeredOf(t, reminderIndex)
  \/ \E t \in Ids \ DOMAIN tasks : ApiTriggeredOf(t, Num(0))

\* deleteTask: an API client deletes a task
ApiDeleteOf(t) ==
  /\ ops < MaxOps
  /\ ops' = ops + 1
  /\ request' = [call |-> "delete", id |-> t, body |-> <<>>]
  /\ IF t \in DOMAIN tasks
       THEN /\ tasks' = [x \in DOMAIN tasks \ {t} |-> tasks[x]]
            /\ response' = [status |-> 200, message |-> "Task deleted successfully"]
            /\ UNCHANGED <<now, scanList, overlapList, emailed, mailLog>>
       ELSE findOneFails(t, NotFound)
  /\ UNCHANGED <<cycle, clientVars>>

ApiDelete == \E t \in Ids : ApiDeleteOf(t)

\* time passes; the 10 s timers too are over long before the clock's next step
Tick ==
  /\ Settled /\ audios = EmptyBag
  /\ \E d \in TimeSteps : now + d <= MaxNow /\ now' = now + d
  /\ UNCHANGED <<tasks, scanList, overlapList, emailed, mailLog, ops, request, response, cycle, clientVars>>

\* a task after a first update has set its reminder time
Scheduled(task, at) ==
  updateTask(task, [ScheduleBody(at) EXCEPT !.has = @ \cup {"reminders"},
                                            !.reminders = task.reminders])

\* a task with one dated sub-reminder as createTask leaves it, or with a
\* reminder time
InitialTasks ==
  {NewTask(p, <<0>>) : p \in Priorities}
    \cup {Scheduled(NewTask(p, <<0>>), at) : p \in Priorities, at \in StartTimes}

\* what getAllTasks returns of a document, as far as the client uses it
Fetched(task) ==
  [ reminderAt |-> task.reminderAt,
    priority   |-> task.priority,
    completed  |-> task.completed,
    reminders  |-> task.reminders ]

NoTask == [id |-> "none", reminderAt |-> Null, priority |-> "low"]

\* the values a render hands to the closures it creates
Closure(active, ringing, queued) ==
  [isReminderActive |-> active, isRingtoneActive |-> ringing, queued |-> queued]

InitClient ==
  /\ uiTasks = [t \in DOMAIN tasks |-> Fetched(tasks[t])]
  /\ mounted = TRUE
  /\ isAuthenticated = TRUE
  /\ processedRemindersRef = {}
  /\ reminderQueue = <<>>
  /\ activeReminderTask = NoTask
  /\ showReminderPopup = FALSE
  /\ currentAudioRef = FALSE
  /\ reminderTriggeredRef = {}
  /\ checkClosure = Closure(FALSE, FALSE, FALSE)
  /\ ring = [isPlaying |-> FALSE, currentTask |-> NoTask, onEndRef |-> NoTask]
  /\ startTimers = <<>>
  /\ audios = EmptyBag
  /\ net = <<>>
  /\ sent = [t \in Tasks |-> 0]

InitServer ==
  /\ now \in StartTimes
  /\ scanList = <<>>
  /\ overlapList = <<>>
  /\ ops = 0
  /\ request = NoRequest
  /\ response = NoResponse
  /\ emailed = [t \in Tasks |-> 0]
  /\ mailLog = [t \in Tasks |-> "none"]
  /\ cycle = [t \in Tasks |-> NewCycle]

\* the server with one task, driven through its API
Init ==
  /\ InitServer
  /\ tasks \in [{"t1"} -> InitialTasks]
  /\ InitClient

Next ==
  \/ Tick \/ ScanQuery \/ ScanProcess
  \/ ApiProgress \/ ApiUpdate \/ ApiTriggered \/ ApiDelete

Spec == Init /\ [][Next]_vars

\* ------------------------------ updates that carry the sub-reminders
\* bodies of an API client that sends the task back with its sub-reminders:
\* with another priority, or with a triggeredCount of its own in each
\* sub-reminder (the handler stores r.triggeredCount || 0 as it comes)
ReminderBodies(task) ==
  {[ToggleBody(task, task.completed) EXCEPT !.priority = p] : p \in Priorities}
    \cup {[ToggleBody(task, task.completed) EXCEPT
             !.reminders = [i \in DOMAIN task.reminders |-> n]] : n \in {4}}

ApiUpdateReminders ==
  \E t \in DOMAIN tasks : \E body \in ReminderBodies(tasks[t]) : ApiUpdateOf(t, body)

NextReminders == Next \/ ApiUpdateReminders

SpecReminders == Init /\ [][NextReminders]_vars

\* ----------------------------------------- scanner ticks that overlap
\* the matched documents of Task.find at this instant
tasksToRemind ==
  LET due == SelectSeq(TaskOrder, LAMBDA t : t \in DOMAIN tasks /\ IsDue(tasks[t], now))
  IN  [i \in DOMAIN due |-> [id |-> due[i], uiPending |-> tasks[due[i]].uiPending]]

\* cron.schedule does not await the async callback: the next minute's tick
\* begins, and queries, while the loop of the tick before is still awaiting
\* an email or a save
ScanQueryOverlapping ==
  /\ Settled
  /\ scanList # <<>>
  /\ overlapList = <<>>
  /\ overlapList' = tasksToRemind
  /\ UNCHANGED <<now, tasks, scanList, emailed, mailLog, ops, request, response, cycle, clientVars>>

\* a loop body that reads notified again and skips a task that another tick
\* has marked since the query
ScanStepRereading(t) ==
  /\ overlapList # <<>>
  /\ t = Head(overlapList).id
  /\ t \in DOMAIN tasks
  /\ overlapList' = Tail(overlapList)
  /\ IF tasks[t].notified
       THEN UNCHANGED <<tasks, emailed, mailLog>>
       ELSE /\ emailed' = [emailed EXCEPT ![t] = @ + 1]
            /\ tasks' = [tasks EXCEPT ![t] = scanSave(@, Head(overlapList).uiPending)]
            /\ mailLog' = [mailLog EXCEPT ![t] = "processed"]
  /\ UNCHANGED <<now, scanList>>

\* one iteration of the loop of the overlapping tick: as ScanStep, on the
\* documents that tick has loaded
ScanStepOverlapping(t) ==
  /\ overlapList # <<>>
  /\ t = Head(overlapList).id
  /\ \E sendMailResolves \in BOOLEAN :
       LET result == sendReminderEmail(sendMailResolves)
       IN  /\ emailed' = [emailed EXCEPT ![t] = @ + 1]
           /\ IF t \in DOMAIN tasks
                THEN /\ tasks' = [tasks EXCEPT ![t] = scanSave(@, Head(overlapList).uiPending)]
                     /\ mailLog' = [mailLog EXCEPT ![t] =
                                      IF result.success THEN "processed" ELSE "failed"]
                     /\ overlapList' = Tail(overlapList)
                ELSE /\ tasks' = tasks
                     /\ mailLog' = [mailLog EXCEPT ![t] = "error"]
                     /\ overlapList' = <<>>
  /\ UNCHANGED <<now, scanList>>

ScanProcessOverlapping ==
  /\ \E t \in Tasks : ScanStepOverlapping(t)
  /\ UNCHANGED <<ops, request, response, cycle, clientVars>>

\* the server with one task, when ticks of the scanner may overlap
NextOverlap == Next \/ ScanQueryOverlapping \/ ScanProcessOverlapping

SpecOverlap == Init /\ [][NextOverlap]_vars

\* ------------------------------------------- a task with a long history
\* the task after it was snoozed for 10 minutes at each of the minutes 1..n
RECURSIVE SnoozedTimes(_, _)
SnoozedTimes(task, n) ==
  IF n = 0 THEN task ELSE snoozeTask(SnoozedTimes(task, n - 1), 10, n)

\* the server with one task that has been snoozed many times before
InitHistory ==
  /\ InitServer
  /\ \E p \in Priorities, at \in StartTimes, n \in {EarlierSnoozes - 1, EarlierSnoozes} :
       tasks = [t \in {"t1"} |-> SnoozedTimes(Scheduled(NewTask(p, <<0>>), at), n)]
  /\ InitClient

SpecHistory == InitHistory /\ [][Next]_vars

\* ================================================================ client
\* the task object the client holds of a document
Snapshot(t, task) ==
  [id |-> t, reminderAt |-> task.reminderAt, priority |-> task.priority]

\* isWithinQuietHours(date), with the local hour of `at`
isWithinQuietHours(at) ==
  LET hour == (at \div 60) % 24
  IN  IF QuietStartHour = QuietEndHour THEN FALSE
      ELSE IF QuietStartHour < QuietEndHour
        THEN hour >= QuietStartHour /\ hour < QuietEndHour
        ELSE hour >= QuietStartHour \/ hour < QuietEndHour

isRingtoneActive == ring.isPlaying \/ currentAudioRef

\* a test that never finds a reminder active
isReminderActiveNever == FALSE

isReminderActive == activeReminderTask # NoTask

\* the render after setTasks: the checkReminders effect is set up again and
\* its closure sees that render's values
Rendered(active, playing, legacyAudio, queue) ==
  Closure(active # NoTask, playing \/ legacyAudio, queue # <<>>)

\* ------------------------------------------------------------ the network
\* taskService.reminderProgress(id, opts): of opts only `stopped` is posted
reminderProgress(id, opts) ==
  [ kind          |-> "progress",
    id            |-> id,
    stopped       |-> IF "stopped" \in DOMAIN opts THEN opts.stopped ELSE FALSE,
    snoozeMinutes |-> Absent,
    index         |-> 0 ]

\* taskService.updateReminderTriggered(id, reminderIndex)
updateReminderTriggeredCall(id, reminderIndex) ==
  [ kind          |-> "triggered",
    id            |-> id,
    stopped       |-> FALSE,
    snoozeMinutes |-> Absent,
    index         |-> reminderIndex ]

\* a request on its way, with what the user did to cause it: via is "end" (the
\* onEnd callback), "stop", "snooze" or "legacy"; minutes is the snooze button
Request(call, via, minutes) ==
  [call |-> call, via |-> via, minutes |-> minutes]

\* the client sends these requests, in this order; the request interceptor
\* attaches the stored token, and a request sent without one is rejected
\* (401) before it reaches a controller
ClientSends(reqs) ==
  /\ net' = IF isAuthenticated THEN net \o reqs ELSE net
  /\ sent' = [t \in Tasks |->
       sent[t] + Cardinality({i \in DOMAIN reqs :
                    reqs[i].call.kind = "progress" /\ reqs[i].call.id = t})]

\* makeOnRingEnd(task)(endedTask), up to the request
makeOnRingEnd(task, endedTask) ==
  LET targetTask == IF endedTask # NoTask THEN endedTask ELSE task
  IN  Request(reminderProgress(targetTask.id, [stopped |-> FALSE]), "end", 0)

\* ------------------------------------------------------- the ringtone hook
\* An Audio element that still has an event to come:
\*   phase "primary"  the local file's play() is pending
\*         "fallback" the fallback's play() is pending
\*         "aborted"  the fallback was paused while its play() was pending
\*         "playing"  it sounds, and its 10 s timer is pending
\*         "paused"   it was paused, and its 10 s timer is still pending
\*   ref      audioRef.current is this element
\*   captured the currentTask the closure of its playSingleRing sees
\*   ended    how often onEnd was called while this element was the one
\*            playing (what the claims count; no handler reads it)
Audio(phase, ref, captured) ==
  [phase |-> phase, ref |-> ref, captured |-> captured, ended |-> 0]

\* audioRef.current.pause(); audioRef.current = null
StopAudio(a) ==
  IF a.ref
    THEN [a EXCEPT !.ref = FALSE,
                   !.phase = CASE @ = "playing"  -> "paused"
                               [] @ = "fallback" -> "aborted"
                               [] OTHER          -> @]
    ELSE a

\* audioRef.current = (another element)
DropRef(a) == [a EXCEPT !.ref = FALSE]

\* useRingtone's stopRingtone
hookStopRingtone ==
  /\ audios' = BagOfAll(StopAudio, audios)
  /\ ring' = [ring EXCEPT !.isPlaying = FALSE, !.currentTask = NoTask]

\* stopAndEnd as the element that is playing sees it: it is paused, and
\* onEndRef.current, if there is one, is called
StopAndEndAudio(a) ==
  IF a.ref /\ a.phase = "playing" /\ ring.onEndRef # NoTask
    THEN StopAudio([a EXCEPT !.ended = @ + 1])
    ELSE StopAudio(a)

\* stopAndEnd() and then stopRingtone(), as handleStopRingtone and
\* handleSnooze call them; what onEnd sends is stopAndEnd below
hookStopAndEnd ==
  /\ audios' = BagOfAll(StopAndEndAudio, audios)
  /\ ring' = [ring EXCEPT !.isPlaying = FALSE, !.currentTask = NoTask]

\* scheduleRingtones(task, onEnd) with onEnd = makeOnRingEnd(task)
scheduleRingtones(task) ==
  /\ audios' = BagOfAll(StopAudio, audios)
  /\ ring' = [isPlaying |-> FALSE, currentTask |-> task, onEndRef |-> task]
  /\ startTimers' = Append(startTimers, [captured |-> ring.currentTask])

\* the 100 ms timer: playSingleRing up to audio.play()
playSingleRing ==
  /\ startTimers # <<>>
  /\ audios' = audios (+) SetToBag({Audio("primary", FALSE, Head(startTimers).captured)})
  /\ startTimers' = Tail(startTimers)
  /\ UNCHANGED <<serverVars, ops, request, response, cycle, uiTasks, mounted, isAuthenticated, queueVars, legacyVars, ring, net, sent>>

\* playPromise.then: the local file plays
PlayResolves ==
  \E a \in BagToSet(audios) :
    /\ a.phase = "primary"
    /\ audios' = BagOfAll(DropRef, audios (-) SetToBag({a}))
                   (+) SetToBag({Audio("playing", TRUE, a.captured)})
    /\ ring' = [ring EXCEPT !.isPlaying = TRUE]
    /\ UNCHANGED <<serverVars, ops, request, response, cycle, uiTasks, mounted, isAuthenticated, queueVars, legacyVars, startTimers, net, sent>>

\* playPromise.catch: the local file failed, the fallback is tried
PlayRejects ==
  \E a \in BagToSet(audios) :
    /\ a.phase = "primary"
    /\ audios' = BagOfAll(DropRef, audios (-) SetToBag({a}))
                   (+) SetToBag({Audio("fallback", TRUE, a.captured)})
    /\ UNCHANGED <<serverVars, ops, request, response, cycle, uiTasks, mounted, isAuthenticated, queueVars, legacyVars, ring, startTimers, net, sent>>

\* audio.play().then of the fallback
FallbackResolves ==
  \E a \in BagToSet(audios) :
    /\ a.phase = "fallback"
    /\ audios' = (audios (-) SetToBag({a})) (+) SetToBag({[a EXCEPT !.phase = "playing"]})
    /\ ring' = [ring EXCEPT !.isPlaying = TRUE]
    /\ UNCHANGED <<serverVars, ops, request, response, cycle, uiTasks, mounted, isAuthenticated, queueVars, legacyVars, startTimers, net, sent>>

\* a failure of both sources that ends the ring as the timer would
FallbackRejectsEnding ==
  \E a \in BagToSet(audios) :
    /\ a.phase \in {"fallback", "aborted"}
    /\ audios' = audios (-) SetToBag({a})
    /\ ring' = [ring EXCEPT !.isPlaying = FALSE]
    /\ ClientSends(IF ring.onEndRef # NoTask
                     THEN <<makeOnRingEnd(ring.onEndRef, a.captured)>>
                     ELSE <<>>)
    /\ UNCHANGED <<serverVars, ops, request, response, cycle, uiTasks, mounted, isAuthenticated, queueVars, legacyVars, startTimers>>

\* audio.play().catch of the fallback: both sources failed
FallbackRejects ==
  \E a \in BagToSet(audios) :
    /\ a.phase \in {"fallback", "aborted"}
    /\ audios' = audios (-) SetToBag({a})
    /\ ring' = [ring EXCEPT !.isPlaying = FALSE]
    /\ UNCHANGED <<serverVars, ops, request, response, cycle, uiTasks, mounted, isAuthenticated, queueVars, legacyVars, startTimers, net, sent>>

\* the 10 s timer of element a, which played
AutoStopOf(a) ==
  /\ a \in BagToSet(audios)
  /\ a.phase \in {"playing", "paused"}
  /\ audios' = audios (-) SetToBag({a})
  /\ ring' = [ring EXCEPT !.isPlaying = FALSE]
  /\ ClientSends(IF ring.onEndRef # NoTask
                   THEN <<makeOnRingEnd(ring.onEndRef, a.captured)>>
                   ELSE <<>>)
  /\ UNCHANGED <<serverVars, ops, request, response, cycle, uiTasks, mounted, isAuthenticated, queueVars, legacyVars, startTimers>>

AutoStop == \E a \in BagToSet(audios) : AutoStopOf(a)

\* ------------------------------------------------------ the reminder queue
\* getFiredReminders: the fired tasks, latest reminderAt first; the order of
\* tasks with equal reminderAt is the database's
getFiredReminders ==
  LET fired == {t \in DOMAIN tasks : ~tasks[t].completed /\ tasks[t].uiPending}
  IN  {order \in [1..Cardinality(fired) -> fired] :
         /\ \A i, j \in DOMAIN order : i # j => order[i] # order[j]
         /\ \A i, j \in DOMAIN order :
              i < j => tasks[order[i]].reminderAt >= tasks[order[j]].reminderAt}

\* the loop of checkPendingReminders over pendingTasks
RECURSIVE Ingest(_, _, _)
Ingest(pendingTasks, processed, queue) ==
  IF pendingTasks = <<>> THEN [processed |-> processed, queue |-> queue]
  ELSE LET task       == Head(pendingTasks)
           reminderId == <<task.id, task.reminderAt>>
       IN  IF reminderId \in processed
             THEN Ingest(Tail(pendingTasks), processed, queue)
             ELSE Ingest(Tail(pendingTasks), processed \cup {reminderId},
                         Append(queue, task))

\* a poll: checkPendingReminders, and fetchTasks when anything was fired
checkPendingReminders ==
  /\ mounted
  /\ isAuthenticated
  /\ Settled
  /\ \E order \in getFiredReminders :
       LET pendingTasks == [i \in DOMAIN order |-> Snapshot(order[i], tasks[order[i]])]
           ingested     == Ingest(pendingTasks, processedRemindersRef, reminderQueue)
       IN  /\ processedRemindersRef' = ingested.processed
           /\ reminderQueue' = ingested.queue
           /\ IF pendingTasks # <<>>
                THEN /\ uiTasks' = [t \in DOMAIN tasks |-> Fetched(tasks[t])]
                     /\ checkClosure' = Rendered(activeReminderTask, ring.isPlaying,
                                                 currentAudioRef, ingested.queue)
                ELSE UNCHANGED <<uiTasks, checkClosure>>
  /\ mounted' = mounted
  /\ isAuthenticated' = isAuthenticated
  /\ UNCHANGED <<serverVars, ops, request, response, cycle, activeReminderTask, showReminderPopup,
                 currentAudioRef, reminderTriggeredRef, ringVars, net, sent>>

\* a queue processor that takes the entry queued last
QueueProcessorTakingLast ==
  /\ mounted
  /\ ~(isReminderActive \/ Len(reminderQueue) = 0)
  /\ LET next == reminderQueue[Len(reminderQueue)]
     IN  /\ reminderQueue' = SubSeq(reminderQueue, 1, Len(reminderQueue) - 1)
         /\ activeReminderTask' = next
         /\ showReminderPopup' = TRUE
         /\ sent' = [sent EXCEPT ![next.id] = 0]
         /\ IF ~isWithinQuietHours(now)
              THEN scheduleRingtones(next)
              ELSE UNCHANGED ringVars
  /\ UNCHANGED <<serverVars, ops, request, response, cycle, uiTasks, mounted, isAuthenticated, processedRemindersRef, legacyVars, net>>

\* the queue processor effect: the next reminder of the queue becomes the
\* active one; it rings unless these are the quiet hours
QueueProcessor ==
  /\ mounted
  /\ ~(isReminderActive \/ Len(reminderQueue) = 0)
  /\ LET next == Head(reminderQueue)
     IN  /\ reminderQueue' = Tail(reminderQueue)
         /\ activeReminderTask' = next
         /\ showReminderPopup' = TRUE
         /\ sent' = [sent EXCEPT ![next.id] = 0]
         /\ IF ~isWithinQuietHours(now)
              THEN scheduleRingtones(next)
              ELSE UNCHANGED ringVars
  /\ UNCHANGED <<serverVars, ops, request, response, cycle, uiTasks, mounted, isAuthenticated, processedRemindersRef, legacyVars, net>>

\* what stopAndEnd sends: the onEnd callback is called with currentTask
stopAndEnd ==
  IF ring.onEndRef # NoTask
    THEN <<makeOnRingEnd(ring.onEndRef, ring.currentTask)>>
    ELSE <<>>

\* a click: the user is slower than the network, and clicks MaxClicks times
Click ==
  /\ mounted
  /\ isAuthenticated
  /\ net = <<>>
  /\ ops < MaxClicks
  /\ ops' = ops + 1
  /\ request' = request
  /\ response' = response

\* the STOP button of the popup, or the floating one
handleStopRingtone ==
  /\ (showReminderPopup /\ isReminderActive) \/ isRingtoneActive
  /\ Click
  /\ LET taskToStop == activeReminderTask
     IN  /\ hookStopAndEnd
         /\ currentAudioRef' = FALSE
         /\ IF taskToStop # NoTask
              THEN /\ showReminderPopup' = FALSE
                   /\ activeReminderTask' = NoTask
                   /\ ClientSends(stopAndEnd \o
                        <<Request(reminderProgress(taskToStop.id, [stopped |-> TRUE]),
                                  "stop", 0)>>)
              ELSE /\ UNCHANGED <<showReminderPopup, activeReminderTask>>
                   /\ ClientSends(stopAndEnd)
  /\ UNCHANGED <<serverVars, cycle, uiTasks, mounted, isAuthenticated, processedRemindersRef, reminderQueue,
                 reminderTriggeredRef, checkClosure, startTimers>>

\* a snooze button of the popup
handleSnooze(minutes) ==
  /\ showReminderPopup /\ isReminderActive
  /\ Click
  /\ LET taskToSnooze == activeReminderTask
     IN  /\ hookStopAndEnd
         /\ currentAudioRef' = FALSE
         /\ showReminderPopup' = FALSE
         /\ activeReminderTask' = NoTask
         /\ ClientSends(stopAndEnd \o
              <<Request(reminderProgress(taskToSnooze.id, [snoozeMinutes |-> minutes]),
                        "snooze", minutes)>>)
         /\ cycle' = [cycle EXCEPT ![taskToSnooze.id].snoozed = TRUE]
  /\ UNCHANGED <<serverVars, uiTasks, mounted, isAuthenticated, processedRemindersRef, reminderQueue,
                 reminderTriggeredRef, checkClosure, startTimers>>

Snooze == \E minutes \in SnoozeButtons : handleSnooze(minutes)

\* ------------------------------------------ the dated sub-reminders (legacy)
\* getMaxRingsForPriority(priority)
getMaxRingsForPriority(p) ==
  CASE p = "low" -> 1 [] p = "medium" -> 2 [] p = "high" -> 3

\* buildReminderDate(task, reminder): every task of this model has a due date
\* and a reminder time that put its dated sub-reminder at 05:00
buildReminderDate(t, i) == 300

\* shouldTriggerReminder(now, reminderDate, currentCount).isWithinWindow
shouldTriggerReminder(at, reminderDate, currentCount) ==
  LET minutesSinceReminder == at - reminderDate
      targetMinutes        == currentCount * 60
  IN  minutesSinceReminder >= targetMinutes /\ minutesSinceReminder < targetMinutes + 1

\* notifyReminder(task, reminder, reminderIndex), as the closure of
\* checkReminders sees the queue and the ringtone
notifyReminder(t, i) ==
  IF checkClosure.isReminderActive \/ checkClosure.isRingtoneActive \/ checkClosure.queued
    THEN /\ reminderQueue' = Append(reminderQueue, Snapshot(t, uiTasks[t]))
         /\ UNCHANGED <<currentAudioRef, net>>
    ELSE /\ currentAudioRef' = ~isWithinQuietHours(now)
         /\ net' = Append(net, Request(updateReminderTriggeredCall(t, i), "legacy", 0))
         /\ UNCHANGED reminderQueue

\* checkReminders reaches sub-reminder i of task t: processReminderForTask
processReminderForTask(t, i) ==
  LET task         == uiTasks[t]
      reminderDate == buildReminderDate(t, i)
      maxRingsOfTask == getMaxRingsForPriority(task.priority)
      currentCount == task.reminders[i]
      triggerKey   == <<t, i, currentCount>>
  IN  /\ ~(currentCount >= maxRingsOfTask \/ now < reminderDate)
      /\ shouldTriggerReminder(now, reminderDate, currentCount)
      /\ triggerKey \notin reminderTriggeredRef
      /\ reminderTriggeredRef' = reminderTriggeredRef \cup {triggerKey}
      /\ notifyReminder(t, i)

checkReminders ==
  /\ mounted
  /\ isAuthenticated
  /\ Settled
  /\ \E t \in DOMAIN uiTasks :
       /\ ~(uiTasks[t].completed \/ Len(uiTasks[t].reminders) = 0)
       /\ \E i \in DOMAIN uiTasks[t].reminders : processReminderForTask(t, i)
  /\ UNCHANGED <<serverVars, ops, request, response, cycle, uiTasks, mounted, isAuthenticated, processedRemindersRef, activeReminderTask,
                 showReminderPopup, checkClosure, ringVars, sent>>

\* audio.onended of the dated sub-reminder's ringtone: stopRingtone of App
onended ==
  /\ currentAudioRef
  /\ currentAudioRef' = FALSE
  /\ UNCHANGED <<serverVars, ops, request, response, cycle, uiTasks, mounted, isAuthenticated, queueVars, reminderTriggeredRef,
                 checkClosure, ringVars, net, sent>>

\* ------------------------------------------- the server behind the client
\* a response handling that closes the popup when the server reports that
\* the reminders of the request's task are exhausted
ServeRequestDismissing ==
  /\ net # <<>>
  /\ LET r == Head(net)
     IN
       /\ net' = Tail(net)
       /\ IF r.call.kind = "progress"
            THEN /\ ServeProgress(r.call.id, r.call.stopped, r.call.snoozeMinutes)
                 /\ cycle' = [cycle EXCEPT ![r.call.id] =
                                CycleAfterProgress(@, tasks[r.call.id], tasks'[r.call.id])]
            ELSE /\ tasks' = [tasks EXCEPT ![r.call.id] =
                                updateReminderTriggered(@, r.call.index)]
                 /\ UNCHANGED <<now, scanList, overlapList, emailed, mailLog, cycle>>
       /\ IF r.via = "end" /\ tasks[r.call.id].reminderAt # Null
                           /\ tasks'[r.call.id].reminderAt = Null
            THEN showReminderPopup' = FALSE /\ activeReminderTask' = NoTask
            ELSE UNCHANGED <<showReminderPopup, activeReminderTask>>
  /\ uiTasks' = IF isAuthenticated THEN [t \in DOMAIN tasks |-> Fetched(tasks'[t])]
                                  ELSE uiTasks
  /\ mounted' = mounted
  /\ isAuthenticated' = isAuthenticated
  /\ checkClosure' = Rendered(activeReminderTask, ring.isPlaying, currentAudioRef,
                              reminderQueue)
  /\ UNCHANGED <<ops, request, response, processedRemindersRef, reminderQueue, currentAudioRef,
                 reminderTriggeredRef, ringVars, sent>>

\* the oldest request of the client is served, and the client fetches the
\* tasks when the response is there.  Of the response makeOnRingEnd reads
\* result.data.message, which is the message of the task document and is
\* never there, so that it never closes the popup.
ServeRequest ==
  /\ net # <<>>
  /\ LET r == Head(net)
     IN
       /\ net' = Tail(net)
       /\ IF r.call.kind = "progress"
            THEN /\ ServeProgress(r.call.id, r.call.stopped, r.call.snoozeMinutes)
                 /\ cycle' = [cycle EXCEPT ![r.call.id] =
                                CycleAfterProgress(@, tasks[r.call.id], tasks'[r.call.id])]
            ELSE /\ tasks' = [tasks EXCEPT ![r.call.id] =
                                updateReminderTriggered(@, r.call.index)]
                 /\ UNCHANGED <<now, scanList, overlapList, emailed, mailLog, cycle>>
  /\ uiTasks' = IF isAuthenticated THEN [t \in DOMAIN tasks |-> Fetched(tasks'[t])]
                                  ELSE uiTasks
  /\ mounted' = mounted
  /\ isAuthenticated' = isAuthenticated
  /\ checkClosure' = Rendered(activeReminderTask, ring.isPlaying, currentAudioRef,
                              reminderQueue)
  /\ UNCHANGED <<ops, request, response, queueVars, currentAudioRef, reminderTriggeredRef, ringVars, sent>>

\* one iteration of the scanner's loop, counted as a fire of the cycle
ScanFire ==
  /\ \E t \in DOMAIN tasks :
       /\ ScanStep(t)
       /\ cycle' = [cycle EXCEPT ![t] = CycleAfterFire(@)]
  /\ UNCHANGED <<ops, request, response, clientVars>>

\* the server with two tasks that have a reminder time and no dated
\* sub-reminders, and one client session; the tasks are not edited
InitClientSession ==
  /\ InitServer
  /\ \E p1, p2 \in Priorities, at1, at2 \in StartTimes :
       tasks = [t \in Tasks |->
                  IF t = "t1" THEN Scheduled(NewTask(p1, <<>>), at1)
                              ELSE Scheduled(NewTask(p2, <<>>), at2)]
  /\ InitClient

NextClient ==
  \/ Tick \/ ScanQuery \/ ScanFire \/ ServeRequest
  \/ checkPendingReminders \/ QueueProcessor \/ handleStopRingtone \/ Snooze
  \/ playSingleRing \/ PlayResolves \/ PlayRejects \/ FallbackResolves
  \/ FallbackRejects \/ AutoStop

SpecClient == InitClientSession /\ [][NextClient]_vars

\* the server with one task that has a reminder time and a dated
\* sub-reminder, and one client session; the task is not edited
InitLegacySession ==
  /\ InitServer
  /\ \E p \in Priorities, at \in StartTimes :
       tasks = [t \in {"t1"} |-> Scheduled(NewTask(p, <<0>>), at)]
  /\ InitClient

NextLegacy == NextClient \/ checkReminders \/ onended

SpecLegacy == InitLegacySession /\ [][NextLegacy]_vars

\* ------------------------------------------------- the queue modal
\* `undefined`, where a task object is expected
Undefined == [id |-> "undefined", reminderAt |-> Null, priority |-> "undefined"]

\* where Array.prototype.splice starts for this start argument, counted from
\* 0, in an array of n elements: a negative start counts from the end
SpliceStart(n, start) ==
  IF start < 0 THEN (IF n + start < 0 THEN 0 ELSE n + start)
  ELSE IF start > n THEN n ELSE start

\* moveQueueItem(from, to): the updater of setReminderQueue. Only `to` is
\* tested; splice(from, 1) of a `from` at or past the end removes nothing, and
\* [item] is then [undefined]
moveQueueItem(prev, from, to) ==
  IF to < 0 \/ to >= Len(prev) THEN prev
  ELSE LET start == SpliceStart(Len(prev), from)
           item  == IF start < Len(prev) THEN prev[start + 1] ELSE Undefined
           next  == IF start < Len(prev)
                      THEN SubSeq(prev, 1, start) \o SubSeq(prev, start + 2, Len(prev))
                      ELSE prev
           at    == SpliceStart(Len(next), to)
       IN  SubSeq(next, 1, at) \o <<item>> \o SubSeq(next, at + 1, Len(next))

\* prev.filter((_, i) => i !== index)
removeQueueItem(prev, index) ==
  LET keep == {i \in DOMAIN prev : i - 1 # index}
      RECURSIVE Kept(_)
      Kept(i) == IF i > Len(prev) THEN <<>>
                 ELSE IF i \in keep THEN <<prev[i]>> \o Kept(i + 1) ELSE Kept(i + 1)
  IN  Kept(1)

\* ReminderQueueModal renders: queue.map reads task._id of every item, which
\* throws for undefined; no error boundary catches it
RendersQueue(queue) == \A i \in DOMAIN queue : queue[i] # Undefined

\* the index arguments of the handlers: those of the list's buttons, and the
\* ones next to them on either side
QueueIndexes == -1 .. Len(reminderQueue) + 1

\* a button handler of the open queue modal sets the queue, and the modal
\* renders it
SetQueueFromModal(queue) ==
  /\ Click
  /\ reminderQueue' = queue
  /\ mounted' = RendersQueue(queue)
  /\ isAuthenticated' = isAuthenticated
  /\ UNCHANGED <<serverVars, cycle, uiTasks, processedRemindersRef, activeReminderTask,
                 showReminderPopup, legacyVars, ringVars, net, sent>>

handleQueueMoveUp(index) ==
  SetQueueFromModal(moveQueueItem(reminderQueue, index, index - 1))

handleQueueMoveDown(index) ==
  SetQueueFromModal(moveQueueItem(reminderQueue, index, index + 1))

handleQueueRemove(index) ==
  SetQueueFromModal(removeQueueItem(reminderQueue, index))

QueueMoveUp   == \E index \in QueueIndexes : handleQueueMoveUp(index)
QueueMoveDown == \E index \in QueueIndexes : handleQueueMoveDown(index)
QueueRemove   == \E index \in QueueIndexes : handleQueueRemove(index)

\* the client session of two tasks, with the queue modal in use
NextQueue == NextClient \/ QueueMoveUp \/ QueueMoveDown \/ QueueRemove

SpecQueue == InitClientSession /\ [][NextQueue]_vars

\* ------------------------------------------------------ logout and login
\* handleLogout: authService.logout() removes the token; the task lists and
\* the keys of the dated sub-reminders are reset, and stopRingtone of App
\* pauses the dated sub-reminder's audio
handleLogout ==
  /\ mounted
  /\ isAuthenticated
  /\ net = <<>>
  /\ ops < MaxClicks
  /\ ops' = ops + 1
  /\ isAuthenticated' = FALSE
  /\ uiTasks' = [t \in {} |-> Fetched(NewTask("low", <<>>))]
  /\ reminderTriggeredRef' = {}
  /\ currentAudioRef' = FALSE
  /\ UNCHANGED <<serverVars, request, response, cycle, mounted, queueVars, checkClosure,
                 ringVars, net, sent>>

\* handleLogin of the user who logged out: the token is stored again, and the
\* effects that depend on isAuthenticated fetch the tasks and set the timers
handleLogin ==
  /\ mounted
  /\ ~isAuthenticated
  /\ net = <<>>
  /\ ops < MaxClicks
  /\ ops' = ops + 1
  /\ isAuthenticated' = TRUE
  /\ uiTasks' = [t \in DOMAIN tasks |-> Fetched(tasks[t])]
  /\ checkClosure' = Rendered(activeReminderTask, ring.isPlaying, currentAudioRef,
                              reminderQueue)
  /\ UNCHANGED <<serverVars, request, response, cycle, mounted, queueVars, currentAudioRef,
                 reminderTriggeredRef, ringVars, net, sent>>

\* the client session with the Logout button of the header and the login form
NextLogout == NextClient \/ handleLogout \/ handleLogin

SpecLogout == InitClientSession /\ [][NextLogout]_vars

\* ------------------------------------------------- requests that fail
\* the oldest request of the client fails (network error, server error): the
\* caller's catch logs it; nothing is sent again and the tasks are not fetched
RequestFails ==
  /\ net # <<>>
  /\ net' = Tail(net)
  /\ UNCHANGED <<serverVars, ops, request, response, cycle, uiTasks, mounted, isAuthenticated, queueVars, legacyVars, ringVars, sent>>

\* the server with one task that has a reminder time, and one client session
\* whose requests may fail
InitLossySession ==
  /\ InitServer
  /\ \E p \in Priorities, at \in StartTimes :
       tasks = [t \in {"t1"} |-> Scheduled(NewTask(p, <<>>), at)]
  /\ InitClient

NextLossy == NextClient \/ RequestFails

SpecLossy == InitLossySession /\ [][NextLossy]_vars

\* The session stays open: the cron tick, the polling interval, the effects,
\* the timers and the audio events all come; the user answers every popup;
\* every request gets its outcome, success or failure.
FairLossy ==
  /\ WF_vars(Tick) /\ WF_vars(ScanQuery) /\ WF_vars(ScanFire)
  /\ WF_vars(checkPendingReminders) /\ WF_vars(QueueProcessor)
  /\ WF_vars(handleStopRingtone \/ Snooze)
  /\ WF_vars(playSingleRing)
  /\ WF_vars(PlayResolves \/ PlayRejects)
  /\ WF_vars(FallbackResolves \/ FallbackRejects)
  /\ WF_vars(AutoStop)
  /\ WF_vars(ServeRequest \/ RequestFails)

SpecLossyFair == InitLossySession /\ [][NextLossy]_vars /\ FairLossy

\* the same session when no request fails
SpecLossless == InitLossySession /\ [][NextClient]_vars

\* ================================================================= claims
Last(s) == s[Len(s)]

\* the history grew by exactly one entry, which has the given action and time
AppendedOne(old, new, action) ==
  /\ Len(new.ringHistory) = Len(old.ringHistory) + 1
  /\ SubSeq(new.ringHistory, 1, Len(old.ringHistory)) = old.ringHistory
  /\ Last(new.ringHistory).action = action
  /\ Last(new.ringHistory).at = now

\* C1: for every priority p, a reminder cycle in which the user never snoozes
\* and the task is not edited reaches Idle after exactly max(p) scanner fires
\* of the task, with max(low) = 1, max(medium) = 2, max(high) = 3.
C1_FiresEqualMax ==
  \A t \in DOMAIN tasks :
    cycle[t].closed # <<>> => cycle[t].closed[1] = maxRemindersMap(tasks[t].priority)

\* C2: each ring cycle of the active reminder causes exactly one progress
\* request for that task, so that the stored reminderCount advances by one
\* step per fired occurrence: never more than one request since the reminder
\* became active, never more than one step since the scanner fired.
C2_OneProgressPerRingCycle ==
  \A t \in DOMAIN tasks : sent[t] <= 1 /\ cycle[t].steps <= 1

\* C3: when the user snoozes the active reminder for N minutes, the request
\* that reaches the server carries snoozeMinutes = N and the server applies
\* snooze: reminderAt = now + N, uiPending = false, notified = false,
\* reminderCount unchanged, one history entry 'snoozed' with note 'Snoozed Nm'.
C3_ClientSnoozeIsServed ==
  [][ (net # <<>> /\ Head(net).via = "snooze" /\ ServeRequest)
        => LET r == Head(net)
               t == r.call.id
           IN  /\ r.call.snoozeMinutes = Num(r.minutes)
               /\ tasks'[t].reminderAt = now + r.minutes
               /\ tasks'[t].uiPending = FALSE
               /\ tasks'[t].notified = FALSE
               /\ tasks'[t].reminderCount = tasks[t].reminderCount
               /\ AppendedOne(tasks[t], tasks'[t], "snoozed")
               /\ Last(tasks'[t].ringHistory).note = SnoozeNote(r.minutes)
    ]_vars

\* C6: at most one reminder is active: a reminder becomes the active one only
\* by the queue processor, only when none is active, and it is the head of
\* the queue, which is removed from the queue and shown.
C6_OneActiveReminder ==
  [][ ( \/ QueueProcessor
        \/ (activeReminderTask' # activeReminderTask /\ activeReminderTask' # NoTask) )
        => /\ activeReminderTask = NoTask
           /\ reminderQueue # <<>>
           /\ activeReminderTask' = Head(reminderQueue)
           /\ reminderQueue' = Tail(reminderQueue)
           /\ showReminderPopup' = TRUE
    ]_vars

\* the queue processor has made the head of a queue of two the active
\* reminder; the other task's reminder is still waiting
C6_Witness ==
  /\ activeReminderTask # NoTask
  /\ showReminderPopup
  /\ reminderQueue # <<>>
  /\ Head(reminderQueue).id # activeReminderTask.id
  /\ <<activeReminderTask.id, activeReminderTask.reminderAt>> \in processedRemindersRef

\* C7: the pending queue plus the active reminder hold at most one entry for
\* a (taskId, reminderAt) key, after any sequence of polls and client events.
C7_IngestIdempotent ==
  LET entries == reminderQueue \o
                   (IF activeReminderTask # NoTask THEN <<activeReminderTask>> ELSE <<>>)
  IN  \A i, j \in DOMAIN entries :
        i # j => <<entries[i].id, entries[i].reminderAt>>
                   # <<entries[j].id, entries[j].reminderAt>>

\* C4: in every reachable state of every task, uiPending = true implies
\* notified = true.
C4_UiPendingImpliesNotified ==
  \A t \in DOMAIN tasks : tasks[t].uiPending => tasks[t].notified

\* C5: for one reminderAt occurrence of a task the reminder email is attempted
\* at most once, whatever other operations happen in between.
C5_EmailAtMostOncePerOccurrence ==
  \A t \in Tasks : emailed[t] <= 1

\* C8: progress on a non-completed task with reminderCount + 1 below the
\* priority's maximum sets reminderAt = now + 60 minutes, reminderCount to the
\* incremented count, uiPending = false, notified = false, and appends one
\* history entry with action 'stopped' if stopped, else 'auto'.
C8_ProgressReschedules ==
  [][\A t \in DOMAIN tasks, stopped \in BOOLEAN, sm \in SnoozeValues :
       ( /\ ApiProgressOf(t, stopped, sm)
         /\ ~(sm.kind = "num" /\ sm.n > 0)
         /\ ~tasks[t].completed
         /\ tasks[t].reminderCount + 1 < maxRemindersMap(tasks[t].priority) )
       => ( /\ tasks'[t].reminderAt = now + 60
            /\ tasks'[t].reminderCount = tasks[t].reminderCount + 1
            /\ tasks'[t].uiPending = FALSE
            /\ tasks'[t].notified = FALSE
            /\ AppendedOne(tasks[t], tasks'[t], IF stopped THEN "stopped" ELSE "auto") )
    ]_vars

\* a task that was stopped by the user one step below its maximum and is
\* scheduled again an hour from now
C8_Witness ==
  \E t \in DOMAIN tasks :
    /\ tasks[t].reminderCount = 1
    /\ tasks[t].reminderAt = now + 60
    /\ tasks[t].lastRingAt = now
    /\ ~tasks[t].uiPending /\ ~tasks[t].notified
    /\ tasks[t].ringHistory # <<>>
    /\ Last(tasks[t].ringHistory) =
         [at |-> now, action |-> "stopped", note |-> "Reminder progressed"]

\* C9: progress on a non-completed task with reminderCount + 1 at or above the
\* priority's maximum sets reminderCount = 0, reminderAt = null, uiPending =
\* false, notified = false, appends one history entry, and leaves completed
\* false and title, priority and the dated sub-reminders untouched.
C9_ExhaustionFrame ==
  [][\A t \in DOMAIN tasks, stopped \in BOOLEAN, sm \in SnoozeValues :
       ( /\ ApiProgressOf(t, stopped, sm)
         /\ ~(sm.kind = "num" /\ sm.n > 0)
         /\ ~tasks[t].completed
         /\ tasks[t].reminderCount + 1 >= maxRemindersMap(tasks[t].priority) )
       => ( /\ tasks'[t].reminderCount = 0
            /\ tasks'[t].reminderAt = Null
            /\ tasks'[t].uiPending = FALSE
            /\ tasks'[t].notified = FALSE
            /\ AppendedOne(tasks[t], tasks'[t], IF stopped THEN "stopped" ELSE "auto")
            /\ tasks'[t].completed = FALSE
            /\ tasks'[t].title = tasks[t].title
            /\ tasks'[t].priority = tasks[t].priority
            /\ tasks'[t].reminders = tasks[t].reminders )
    ]_vars

\* a fired reminder was exhausted just now: the task is Idle, not completed,
\* and still has its dated sub-reminder
C9_Witness ==
  \E t \in DOMAIN tasks :
    /\ tasks[t].reminderAt = Null
    /\ tasks[t].reminderCount = 0
    /\ tasks[t].lastRingAt = now
    /\ ~tasks[t].completed
    /\ tasks[t].reminders # <<>>
    /\ tasks[t].ringHistory # <<>>
    /\ Last(tasks[t].ringHistory).note = "Max reminders reached"

\* C10 as stated: snooze with a positive finite number always yields
\* reminderAt = now + minutes, uiPending = false, notified = false and leaves
\* reminderCount unchanged, in whatever state the task is.
C10_SnoozeAlways ==
  [][\A t \in DOMAIN tasks, stopped \in BOOLEAN, sm \in SnoozeValues :
       ( /\ ApiProgressOf(t, stopped, sm)
         /\ sm.kind = "num" /\ sm.n > 0 )
       => ( /\ tasks'[t].reminderAt = now + sm.n
            /\ tasks'[t].uiPending = FALSE
            /\ tasks'[t].notified = FALSE
            /\ tasks'[t].reminderCount = tasks[t].reminderCount )
    ]_vars

\* C10 amended: snooze with a positive finite number on a task that is not
\* completed yields reminderAt = now + minutes, uiPending = false, notified =
\* false and leaves reminderCount unchanged, whatever the reminderCount and
\* whether or not the reminder has fired.
C10_SnoozeReschedules ==
  [][\A t \in DOMAIN tasks, stopped \in BOOLEAN, sm \in SnoozeValues :
       ( /\ ApiProgressOf(t, stopped, sm)
         /\ sm.kind = "num" /\ sm.n > 0
         /\ ~tasks[t].completed )
       => ( /\ tasks'[t].reminderAt = now + sm.n
            /\ tasks'[t].uiPending = FALSE
            /\ tasks'[t].notified = FALSE
            /\ tasks'[t].reminderCount = tasks[t].reminderCount )
    ]_vars

\* a reminder that had already escalated once was snoozed just now for 30
\* minutes and is Scheduled again with its count kept
C10_Witness ==
  \E t \in DOMAIN tasks :
    /\ tasks[t].reminderCount = 1
    /\ tasks[t].reminderAt = now + 30
    /\ ~tasks[t].uiPending /\ ~tasks[t].notified
    /\ tasks[t].ringHistory # <<>>
    /\ Last(tasks[t].ringHistory) =
         [at |-> now, action |-> "snoozed", note |-> "Snoozed 30m"]

\* C11: ringHistory never holds more than 20 entries after any number of
\* progress and snooze operations, and a push onto a full history evicts the
\* oldest entry: what is kept are the most recent entries, in insertion
\* order, the pushed entry last.
C11_HistoryBounded ==
  /\ [](\A t \in DOMAIN tasks : Len(tasks[t].ringHistory) <= 20)
  /\ [][\A t \in DOMAIN tasks \cap DOMAIN tasks' :
          ( \/ tasks'[t].ringHistory # tasks[t].ringHistory
            \/ /\ ~tasks[t].completed
               /\ \E stopped \in BOOLEAN, sm \in SnoozeValues :
                    ApiProgressOf(t, stopped, sm) ) =>
            LET old  == tasks[t].ringHistory
                new  == tasks'[t].ringHistory
                kept == Len(new) - 1
            IN  /\ Len(new) = IF Len(old) < 20 THEN Len(old) + 1 ELSE 20
                /\ new[Len(new)].at = now
                /\ \A k \in 1..kept : new[k] = old[Len(old) - kept + k]
      ]_vars

\* a full history whose oldest entry was evicted by the push made just now
C11_Witness ==
  \E t \in DOMAIN tasks :
    /\ Len(tasks[t].ringHistory) = 20
    /\ tasks[t].ringHistory[1].at > 1
    /\ tasks[t].ringHistory[20].at = now
    /\ tasks[t].ringHistory[19].at < now

\* a progress call moved the count of task t one up, leaving the reminder
\* scheduled, or it exhausted the cycle: count 0 and no reminder time
ProgressStep(t) ==
  \/ /\ tasks'[t].reminderCount = tasks[t].reminderCount + 1
     /\ tasks'[t].reminderAt # Null
  \/ /\ tasks'[t].reminderCount = 0
     /\ tasks'[t].reminderAt = Null

\* the step is a progress call (not a snooze) on task t
IsProgressCall(t) ==
  \E stopped \in BOOLEAN, sm \in SnoozeValues :
    ApiProgressOf(t, stopped, sm) /\ ~(sm.kind = "num" /\ sm.n > 0)

\* C12 as stated: on every progress call on a task reminderCount goes up by
\* exactly one, until the call that exhausts the cycle resets it to 0; no
\* other operation ever decreases reminderCount.
C12_CountMonotonicAlways ==
  [][\A t \in DOMAIN tasks \cap DOMAIN tasks' :
       /\ IsProgressCall(t) => ProgressStep(t)
       /\ tasks'[t].reminderCount < tasks[t].reminderCount
            => IsProgressCall(t) /\ tasks'[t].reminderCount = 0
                 /\ tasks'[t].reminderAt = Null
    ]_vars

\* C12 amended: on every progress call on a task that is not completed
\* reminderCount goes up by exactly one, until the call that exhausts the
\* cycle resets it to 0; no other operation ever decreases reminderCount.
C12_CountMonotonic ==
  [][\A t \in DOMAIN tasks \cap DOMAIN tasks' :
       /\ (IsProgressCall(t) /\ ~tasks[t].completed) => ProgressStep(t)
       /\ tasks'[t].reminderCount < tasks[t].reminderCount
            => IsProgressCall(t) /\ tasks'[t].reminderCount = 0
                 /\ tasks'[t].reminderAt = Null
    ]_vars

\* two progress calls in a row have taken the count of a high-priority task
\* from 0 to 2
C12_Witness ==
  \E t \in DOMAIN tasks :
    /\ tasks[t].priority = "high"
    /\ tasks[t].reminderCount = 2
    /\ Len(tasks[t].ringHistory) = 2
    /\ \A k \in 1..2 : tasks[t].ringHistory[k].note = "Reminder progressed"
    /\ tasks[t].reminderAt = now + 60

\* C13: in every reachable state, reminderCount is below the maximum of the
\* task's priority whenever reminderAt is not null and uiPending is false,
\* also after an update has changed the priority.
C13_CountBelowMax ==
  \A t \in DOMAIN tasks :
    (tasks[t].reminderAt # Null /\ ~tasks[t].uiPending)
      => tasks[t].reminderCount < maxRemindersMap(tasks[t].priority)

C15_FiredOnlyWhenDue ==
  \A t \in DOMAIN tasks :
    (tasks[t].notified /\ tasks[t].uiPending)
      => /\ ~tasks[t].completed
         /\ tasks[t].reminderAt # Null
         /\ tasks[t].reminderAt <= now

\* C16: an update that marks a not yet completed task with a reminder time as
\* completed stores reminderAt = the previous stored reminderAt + the offset
\* of the priority (low 30 minutes, medium 1440, high 10080; the priority of
\* the request if it has one, else the stored one), whatever the time is
\* now, and resets notified to false.
C16_CompletionReschedules ==
  [][\A t \in DOMAIN tasks : \A body \in UpdateBodies(tasks[t]) :
       ( /\ ApiUpdateOf(t, body)
         /\ "completed" \in body.has /\ body.completed
         /\ ~tasks[t].completed
         /\ tasks[t].reminderAt # Null )
       => LET p == IF "priority" \in body.has THEN body.priority
                                              ELSE tasks[t].priority
              offset == CASE p = "low" -> 30 [] p = "medium" -> 1440
                          [] p = "high" -> 10080
          IN  /\ tasks'[t].reminderAt = tasks[t].reminderAt + offset
              /\ tasks'[t].notified = FALSE
              /\ tasks'[t].completed
    ]_vars

\* a high-priority task whose reminder was set for 04:00 was completed at
\* 05:00 and has its reminder seven days after 04:00
C16_Witness ==
  \E t \in DOMAIN tasks :
    /\ tasks[t].completed
    /\ tasks[t].priority = "high"
    /\ tasks[t].reminderAt = 240 + 10080
    /\ ~tasks[t].notified
    /\ now = 300

\* C17: an update that is not a completion of a not yet completed task with
\* a reminder time, and that does not set another reminder time, leaves
\* reminderAt, notified, uiPending and reminderCount as they are.
C17_UpdateLeavesReminderState ==
  [][\A t \in DOMAIN tasks : \A body \in UpdateBodies(tasks[t]) :
       ( /\ ApiUpdateOf(t, body)
         /\ ~( /\ "completed" \in body.has /\ body.completed
               /\ ~tasks[t].completed
               /\ tasks[t].reminderAt # Null )
         /\ ("reminderAt" \in body.has => body.reminderAt = tasks[t].reminderAt) )
       => /\ tasks'[t].reminderAt = tasks[t].reminderAt
          /\ tasks'[t].notified = tasks[t].notified
          /\ tasks'[t].uiPending = tasks[t].uiPending
          /\ tasks'[t].reminderCount = tasks[t].reminderCount
    ]_vars

\* C18: quiet hours suppress audio only.  A reminder activated during the
\* quiet hours becomes the active reminder and is shown, without a ring; the
\* user's stop on it makes the server execute the progress transition for
\* that task, and the user's snooze for N minutes the snooze transition.
C18_QuietHoursSilenceAudioOnly ==
  [][ isWithinQuietHours(now) =>
        /\ QueueProcessor =>
              /\ activeReminderTask' = Head(reminderQueue)
              /\ showReminderPopup'
              /\ UNCHANGED ringVars
        /\ (net # <<>> /\ Head(net).via = "stop" /\ ServeRequest) =>
              LET t == Head(net).call.id
              IN  /\ ProgressStep(t)
                  /\ ~tasks'[t].uiPending /\ ~tasks'[t].notified
                  /\ AppendedOne(tasks[t], tasks'[t], "stopped")
        /\ (net # <<>> /\ Head(net).via = "snooze" /\ ServeRequest) =>
              LET t == Head(net).call.id
              IN  /\ tasks'[t].reminderAt = now + Head(net).minutes
                  /\ tasks'[t].reminderCount = tasks[t].reminderCount
                  /\ ~tasks'[t].uiPending /\ ~tasks'[t].notified
                  /\ AppendedOne(tasks[t], tasks'[t], "snoozed")
    ]_vars

\* C19: for a play that started playback, onEnd is called exactly once, by
\* the 10 second timer; when the timer calls it, it was not called for that
\* play before, whether or not stop was called in between.
C19_OnEndOncePerPlay ==
  [][\A a \in BagToSet(audios) :
       (AutoStopOf(a) /\ ring.onEndRef # NoTask) => a.ended = 0
    ]_vars

\* C20: stop cancels the pending auto-stop timer and is idempotent: the timer
\* of an element that was stopped calls no onEnd (it sends nothing), a
\* stopped element does not sound, and stopping it again changes nothing.
C20_StopCancelsAutoStop ==
  [][\A a \in BagToSet(audios) :
       /\ (AutoStopOf(a) /\ a.phase = "paused") => net' = net
       /\ a.ref => StopAudio(a).phase # "playing"
       /\ StopAudio(StopAudio(a)) = StopAudio(a)
    ]_vars

\* the number of audio elements that sound
Sounding ==
  BagCardinality([a \in {x \in BagToSet(audios) : x.phase = "playing"} |->
                    CopiesIn(a, audios)])

\* C21: at most one audio element plays in any reachable state of the
\* player, for every interleaving of play, the 100 ms start delay, the
\* resolution of the play promise and stop.
C21_OneAudioStream == Sounding <= 1

\* C22: when both the primary and the fallback source fail to start, no
\* onEnd is called and no progress request is sent, and the reminder stays
\* the active, displayed one; an active reminder ends only by the user's
\* stop or snooze.
C22_AudioFailureKeepsReminder ==
  [][ /\ FallbackRejects =>
            /\ net' = net /\ sent' = sent
            /\ UNCHANGED <<activeReminderTask, showReminderPopup>>
      /\ (activeReminderTask # NoTask /\ activeReminderTask' # activeReminderTask)
            => handleStopRingtone \/ Snooze
    ]_vars

\* outside the quiet hours a reminder is active and displayed, its start
\* timer has run, both sources have failed, nothing sounds, nothing was sent
\* for it and the server still has it as fired
C22_Witness ==
  /\ activeReminderTask # NoTask /\ showReminderPopup
  /\ ~isWithinQuietHours(now)
  /\ ops = 0
  /\ ring.onEndRef = activeReminderTask /\ ~ring.isPlaying
  /\ startTimers = <<>> /\ audios = EmptyBag
  /\ net = <<>> /\ sent[activeReminderTask.id] = 0
  /\ tasks[activeReminderTask.id].uiPending

\* the progress requests for task t that are on their way
InFlight(t) ==
  Cardinality({i \in DOMAIN net :
                 net[i].call.kind = "progress" /\ net[i].call.id = t})

\* C23: at no time are two progress or snooze requests for the same task in
\* flight together: the next one is sent only after the one before it was
\* answered.
C23_OneRequestInFlight ==
  \A t \in DOMAIN tasks : InFlight(t) <= 1

\* C25: a failed progress or snooze request is not sent again by the client,
\* and the next poll makes up for it: a poll that finds a task fired on the
\* server that is neither the active reminder nor waiting in the queue puts
\* it into the queue, so that it is presented again.
C25_FailedRequestRetriedByPoll ==
  [][ /\ RequestFails => net' = Tail(net)
      /\ \A t \in DOMAIN tasks :
           ( /\ checkPendingReminders
             /\ tasks[t].uiPending /\ ~tasks[t].completed
             /\ activeReminderTask.id # t
             /\ \A i \in DOMAIN reminderQueue : reminderQueue[i].id # t )
           => \E i \in DOMAIN reminderQueue' : reminderQueue'[i].id = t
    ]_vars

\* C24: a late response does not corrupt the client's state: when the
\* response to a progress or snooze request arrives for a task that is not
\* the active reminder, the reminder that is active then stays active and
\* displayed, and the queue, the dedup set and the ringtone stay as they are.
C24_LateResponseKeepsActive ==
  [][ ( /\ ServeRequest
        /\ activeReminderTask # NoTask
        /\ Head(net).call.id # activeReminderTask.id )
      => UNCHANGED <<activeReminderTask, showReminderPopup, reminderQueue,
                     processedRemindersRef, ringVars>>
    ]_vars

\* the reminder of t2 is active and displayed; a response for t1, stopped
\* before, has arrived and exhausted its reminder, and another request for t1
\* is still on its way
C24_Witness ==
  /\ activeReminderTask.id = "t2" /\ showReminderPopup
  /\ cycle["t1"].steps >= 1
  /\ tasks["t1"].reminderAt = Null
  /\ net # <<>> /\ Head(net).call.id = "t1"

\* C26: progress or snooze requested for a task that is already completed is
\* a no-op: the response is the success "Task already completed" and no field
\* of the task changes (reminderAt, reminderCount, notified, uiPending,
\* lastRingAt and ringHistory among them), nor any other task, nor the scan.
C26_CompletedIsNoOp ==
  [][\A t \in DOMAIN tasks :
       tasks[t].completed =>
         \A stopped \in BOOLEAN, sm \in SnoozeValues :
           ApiProgressOf(t, stopped, sm)
             => ( /\ tasks'[t] = tasks[t]
                  /\ UNCHANGED serverVars
                  /\ response' = [status |-> 200, message |-> "Task already completed"] )
    ]_vars

\* a progress call was answered "Task already completed" for a completed task
\* that has a reminder scheduled
C26_Witness ==
  /\ response.message = "Task already completed"
  /\ \E t \in DOMAIN tasks : tasks[t].completed /\ tasks[t].reminderAt # Null

\* the malformed values of snoozeMinutes: zero, negative, non-numeric and
\* non-finite
MalformedSnoozes == {Num(0), Num(-10), Str(10), Inf}

\* C27: a malformed snoozeMinutes value (zero, negative, non-finite or
\* non-numeric) is treated as absent: the request succeeds, and the task and
\* the response are the ones of the same call without snoozeMinutes, i.e. the
\* escalation step of progress (count one up and rescheduled an hour later,
\* or the cycle exhausted).
C27_MalformedSnoozeIsAbsent ==
  [][\A t \in DOMAIN tasks :
       ~tasks[t].completed =>
         \A stopped \in BOOLEAN, sm \in MalformedSnoozes :
           ApiProgressOf(t, stopped, sm)
             => ( /\ response'.status = 200
                  /\ response' = progressReminderResponse(tasks[t], stopped, Absent)
                  /\ tasks'[t] = progressReminder(tasks[t], stopped, Absent, now)
                  /\ ProgressStep(t)
                  /\ \/ tasks'[t].reminderAt = Null
                     \/ tasks'[t].reminderAt = now + ReminderInterval
                  /\ Last(tasks'[t].ringHistory).action \in {"stopped", "auto"} )
    ]_vars

\* the last call was a progress call with a malformed snoozeMinutes, on a task
\* that is not completed, and it was answered with the escalation step
C27_Witness ==
  /\ request.call = "reminder-progress"
  /\ request.body.snoozeMinutes \in MalformedSnoozes
  /\ request.id \in DOMAIN tasks
  /\ ~tasks[request.id].completed
  /\ tasks[request.id].lastRingAt = now
  /\ tasks[request.id].reminderCount = 1
  /\ response.message = "Reminder progressed and rescheduled +1 hour"

\* the step is a progress, reminder-triggered, update or delete call that
\* names the id t
CallOn(t) ==
  \/ \E stopped \in BOOLEAN, sm \in SnoozeValues : ApiProgressOf(t, stopped, sm)
  \/ \E reminderIndex \in ReminderIndexes : ApiTriggeredOf(t, reminderIndex)
  \/ \E body \in CompleteBodies \cup {ScheduleBody(now + 10)} : ApiUpdateOf(t, body)
  \/ ApiDeleteOf(t)

\* C28: for progress, reminder-triggered, update and delete, a task id that
\* does not exist (or belongs to another user) yields the not-found error, and
\* no task's state changes.
C28_MissingIdIsNotFound ==
  [][\A t \in Ids \ DOMAIN tasks :
       CallOn(t) => ( /\ response' = NotFound
                      /\ response'.status = 404
                      /\ UNCHANGED serverVars )
    ]_vars

\* C29: reminder-triggered with a reminderIndex outside the bounds of the
\* task's sub-reminder list (negative, or at or above its length) is rejected
\* with a client error (status 400) and changes no state.
C29_IndexOutOfBoundsRejected ==
  [][\A t \in DOMAIN tasks, reminderIndex \in ReminderIndexes :
       ( /\ reminderIndex.kind = "num"
         /\ \/ reminderIndex.n < 0
            \/ reminderIndex.n >= Len(tasks[t].reminders)
         /\ ApiTriggeredOf(t, reminderIndex) )
       => ( /\ response'.status = 400
            /\ UNCHANGED serverVars )
    ]_vars

\* the last call was reminder-triggered with index 1 on a task that has one
\* sub-reminder (index 0), not yet triggered, and it was rejected
C29_Witness ==
  /\ request.call = "reminder-triggered"
  /\ request.body.reminderIndex = Num(1)
  /\ request.id \in DOMAIN tasks
  /\ Len(tasks[request.id].reminders) = 1
  /\ tasks[request.id].reminders[1] = 0
  /\ response = [status |-> 400, message |-> "Invalid reminder index"]

\* the popup of the active reminder is on the screen
PopupDisplayed == mounted /\ isAuthenticated /\ showReminderPopup /\ isReminderActive

\* the step is a reorder or a remove of the queue modal, with this index
IsQueueOp(index) ==
  handleQueueMoveUp(index) \/ handleQueueMoveDown(index) \/ handleQueueRemove(index)

C31_OverlapDoubleSends ==
  [][/\ ScanQueryOverlapping
        => \A i \in DOMAIN scanList :
             ( /\ scanList[i].id \in DOMAIN tasks
               /\ IsDue(tasks[scanList[i].id], now) )
             => \E j \in DOMAIN overlapList' : overlapList'[j].id = scanList[i].id
     /\ \A t \in DOMAIN tasks :
          (ScanStep(t) \/ ScanStepOverlapping(t))
            => /\ emailed'[t] = emailed[t] + 1
               /\ tasks'[t].notified
    ]_vars

\* with no API call made, two overlapping ticks have both emailed the one
\* occurrence of the task
C31_Witness ==
  /\ ops = 0
  /\ scanList = <<>>
  /\ overlapList = <<>>
  /\ \E t \in DOMAIN tasks :
       /\ emailed[t] = 2
       /\ tasks[t].notified
       /\ tasks[t].reminderAt \in StartTimes

\* C32: triggeredCount <= maxRings(priority) holds for every sub-reminder
\* after any sequence of reminder-triggered calls and task updates.
C32_TriggeredCountCapped ==
  \A t \in DOMAIN tasks :
    \A i \in DOMAIN tasks[t].reminders :
      tasks[t].reminders[i] <= maxRings(tasks[t].priority)

\* C33: absent reorder and remove, fired reminders are activated in the order
\* they were ingested: every step either leaves the queue as it is or appends
\* to its tail, and then activates nothing, or it takes the head of the queue
\* and makes it the active reminder; so no entry is activated before one that
\* was ingested earlier.
C33_ActivatedInIngestOrder ==
  [][\/ /\ Len(reminderQueue') >= Len(reminderQueue)
        /\ SubSeq(reminderQueue', 1, Len(reminderQueue)) = reminderQueue
        /\ activeReminderTask' \in {activeReminderTask, NoTask}
     \/ /\ reminderQueue # <<>>
        /\ reminderQueue' = Tail(reminderQueue)
        /\ activeReminderTask' = Head(reminderQueue)
    ]_vars

\* two reminders were ingested; the one at the head was activated and
\* acknowledged, and the other one is the active reminder now
C33_Witness ==
  /\ Cardinality(processedRemindersRef) = 2
  /\ reminderQueue = <<>>
  /\ isReminderActive
  /\ \E t \in DOMAIN tasks : t # activeReminderTask.id /\ sent[t] > 0

\* the requests the step has sent
SentNow ==
  IF Len(net') > Len(net) THEN SubSeq(net', Len(net) + 1, Len(net')) ELSE <<>>

\* C34: every progress request the client sends names the task that is the
\* active reminder at the moment of the ring end or user action; no task
\* other than the active one is progressed.
C34_ProgressNamesActive ==
  [][\A i \in DOMAIN SentNow :
       SentNow[i].call.kind = "progress"
         => /\ isReminderActive
            /\ SentNow[i].call.id = activeReminderTask.id
    ]_vars

\* C35: progress takes a task only out of the Fired state: a progress request
\* for a task that is Idle (reminderAt = null) or Scheduled but not yet fired
\* (uiPending = false) never creates or moves a reminder, so an Idle task
\* stays Idle.
C35_ProgressOnlyWhenFired ==
  [][\A t \in DOMAIN tasks :
       (tasks[t].reminderAt = Null \/ ~tasks[t].uiPending) =>
         \A stopped \in BOOLEAN, sm \in SnoozeValues :
           ApiProgressOf(t, stopped, sm)
             => /\ tasks'[t].reminderAt = tasks[t].reminderAt
                /\ tasks'[t].reminderCount = tasks[t].reminderCount
    ]_vars

\* the reminder of task t is fired on the server, and the client has ingested it
FiredAndIngested(t) ==
  /\ t \in DOMAIN tasks
  /\ tasks[t].uiPending
  /\ <<t, tasks[t].reminderAt>> \in processedRemindersRef

\* a progress or snooze request for task t was served: it is no longer fired;
\* or its reminder waits, active or queued, for a user who has made all the
\* clicks there are
Acknowledged(t) ==
  \/ t \in DOMAIN tasks /\ ~tasks[t].uiPending
  \/ /\ ops >= MaxClicks
     /\ \/ activeReminderTask.id = t
        \/ \E i \in DOMAIN reminderQueue : reminderQueue[i].id = t

\* C36: every fired reminder that the client has ingested is eventually
\* acknowledged by a progress or snooze request, when the session stays open
\* and the user answers every popup; a failed request does not leave the task
\* fired forever.
C36_IngestedEventuallyAcknowledged ==
  \A t \in Tasks : FiredAndIngested(t) ~> Acknowledged(t)

\* a ringtone of the hook is pending (its start timer, or the play() of its
\* element) or sounding
RingtoneStartingOrPlaying ==
  \/ startTimers # <<>>
  \/ \E a \in BagToSet(audios) : a.phase \in {"primary", "fallback", "playing"}

\* C37: whenever no reminder is active, no ringtone is playing or about to
\* start; a stop during the start delay or before play() resolves prevents
\* the audio of the stopped reminder.
C37_SilentWhenNoneActive == ~isReminderActive => ~RingtoneStartingOrPlaying

\* the fields of the escalation cycle
EscalationFields(task) ==
  <<task.reminderAt, task.reminderCount, task.notified, task.uiPending, task.ringHistory>>

\* a dated sub-reminder triggers in this step: checkReminders records its key
LegacyTrigger == reminderTriggeredRef' # reminderTriggeredRef

\* the reminder-triggered request of a dated sub-reminder is served in this step
LegacyServed ==
  /\ net # <<>>
  /\ Head(net).call.kind = "triggered"
  /\ net' = Tail(net)

\* C38: a trigger of a dated sub-reminder changes no field of the escalation
\* cycle of any task, neither when its reminder-triggered request is served
\* nor by placing the task in the escalation queue.
C38_LegacyDecoupled ==
  [][/\ (LegacyTrigger \/ LegacyServed) =>
          \A t \in DOMAIN tasks : EscalationFields(tasks'[t]) = EscalationFields(tasks[t])
     /\ LegacyTrigger => reminderQueue' = reminderQueue]_vars

\* C39: logout ends the reminder session: while nobody is logged in there is
\* no active reminder, the pending queue is empty, the set of processed
\* reminder keys is empty, and no ringtone of the queue plays or is starting.
C39_LogoutEndsSession ==
  ~isAuthenticated =>
     /\ ~isReminderActive
     /\ reminderQueue = <<>>
     /\ processedRemindersRef = {}
     /\ ~RingtoneStartingOrPlaying

====
